---- MODULE Spec2Model ----
(***************************************************************************)
(* Model of process_logo.py: a script that opens an image, normalises it   *)
(* to RGBA, rewrites every near-black pixel to (0,0,0,0), crops the image  *)
(* to the bounding box Pillow's Image.getbbox() reports, and saves a PNG.  *)
(*                                                                         *)
(* The imaging library is modelled by what the script's calls do on an     *)
(* RGBA image: getdata/putdata read and replace the row-major pixel list,  *)
(* getbbox() (default alpha_only=True) bounds the pixels whose ALPHA is    *)
(* non-zero and returns None when there is none, crop(box) copies the      *)
(* half-open rectangle, save() opens the target for writing and then       *)
(* encodes the buffer losslessly.                                          *)
(***************************************************************************)
EXTENDS Integers, Sequences, FiniteSets, TLC

\* ------------------------------------------------------------------ bounds
\* An input image has at most MaxArea pixels (width * height).
MaxArea == 6
\* The script is invoked at most MaxRuns times; every invocation after the
\* first reads the file the previous one wrote.
MaxRuns == 2

\* --------------------------------------------------------------- constants
\* process_logo.py:15
threshold == 15

\* Pixels the RGBA input files are drawn from: fully transparent black, a
\* near-black opaque pixel just below the threshold, a pixel exactly on the
\* threshold in one channel with alpha 0, and an opaque pixel on the
\* threshold in another channel.
Palette == { <<0, 0, 0, 0>>, <<14, 14, 14, 255>>, <<15, 0, 0, 0>>, <<0, 14, 15, 255>> }
\* Pixels the RGB (three-channel) input files are drawn from.
PaletteRGB == { <<14, 14, 14>>, <<14, 15, 14>> }

Paths == { "in", "out" }

Running == -1

VARIABLES
    argv,        \* sys.argv[1:], the command-line arguments
    fs,          \* the file system: path -> file
    writable,    \* whether the output path can be opened for writing
    pc,          \* position of the script
    img,         \* the script's variable img
    datas,       \* the buffer as loaded, read by the threshold loop
    new_data,    \* the script's list new_data
    bbox,        \* the script's variable bbox
    events,      \* printed lines and stage entries, in program order
    exitStatus,  \* Running, 0 or 1
    err,         \* the exception that ended the run, if any
    outBefore,   \* the file at the output path when the run started
    run          \* number of the current invocation

vars == << argv, fs, writable, pc, img, datas, new_data, bbox, events,
           exitStatus, err, outBefore, run >>

\* ------------------------------------------------------------------ values
None == << >>
NoImage == [w |-> 0, h |-> 0, px |-> << >>]
NoFile == [kind |-> "none", mode |-> "", w |-> 0, h |-> 0, bytes |-> << >>]
Garbage == [kind |-> "garbage", mode |-> "", w |-> 0, h |-> 0, bytes |-> << >>]

Sizes == { s \in (1..MaxArea) \X (1..MaxArea) : s[1] * s[2] <= MaxArea }

Min(S) == CHOOSE m \in S : \A n \in S : m <= n
Max(S) == CHOOSE m \in S : \A n \in S : m >= n

\* ------------------------------------------------------- files and buffers
Bands(mode) == IF mode = "RGBA" THEN 4 ELSE 3

\* Image.save(path, "PNG"): the header and the channel bytes, row-major.
Encode(mode, im) ==
    [kind |-> "image", mode |-> mode, w |-> im.w, h |-> im.h,
     bytes |-> [k \in 1..(Len(im.px) * Bands(mode)) |->
                  im.px[((k - 1) \div Bands(mode)) + 1][((k - 1) % Bands(mode)) + 1]]]

\* Image.open(path) followed by the decode: the pixel tuples of the file in
\* the file's own mode.
Decode(f) ==
    [w |-> f.w, h |-> f.h,
     px |-> [i \in 1..(f.w * f.h) |->
               [c \in 1..Bands(f.mode) |-> f.bytes[(i - 1) * Bands(f.mode) + c]]]]

\* Image.convert("RGBA"): a three-channel pixel gains alpha 255.
ConvertRGBA(mode, im) ==
    IF mode = "RGBA" THEN im
    ELSE [im EXCEPT !.px = [i \in 1..Len(im.px) |-> Append(im.px[i], 255)]]

\* Variant: anything that exists is taken for an image.
Decodable_AnyFile(f) == f.kind # "none"
Decodable(f) == f.kind = "image"

\* The threshold test and loop body of process_logo.py:19-22.
\* Variant: the comparison is <= instead of <.
IsDark_Inclusive(item) == item[1] <= threshold /\ item[2] <= threshold /\ item[3] <= threshold
IsDark(item) == item[1] < threshold /\ item[2] < threshold /\ item[3] < threshold
\* Variant: a dark pixel keeps its alpha.
ThresholdPixel_KeepAlpha(item) == IF IsDark(item) THEN <<0, 0, 0, item[4]>> ELSE item
ThresholdPixel(item) == IF IsDark(item) THEN <<0, 0, 0, 0>> ELSE item
ThresholdAll(px) == [i \in 1..Len(px) |-> ThresholdPixel(px[i])]

\* Image.getbbox() on an RGBA image: the pixels with non-zero alpha.
XOf(i, w) == (i - 1) % w
YOf(i, w) == (i - 1) \div w
\* Variant: a pixel is data when any of its four channels is non-zero.
HasData_AnyChannel(item) == item # <<0, 0, 0, 0>>
HasData(item) == item[4] # 0
\* Variant: the right and bottom edges are reported inclusive.
getbbox_Inclusive(im) ==
    LET data == { i \in 1..Len(im.px) : HasData(im.px[i]) }
        xs == { XOf(i, im.w) : i \in data }
        ys == { YOf(i, im.w) : i \in data }
    IN  IF data = {} THEN None
        ELSE << Min(xs), Min(ys), Max(xs), Max(ys) >>
\* Variant: an image without data yields the full rectangle instead of None.
getbbox_NeverNone(im) ==
    LET data == { i \in 1..Len(im.px) : HasData(im.px[i]) }
        xs == { XOf(i, im.w) : i \in data }
        ys == { YOf(i, im.w) : i \in data }
    IN  IF data = {} THEN << 0, 0, im.w, im.h >>
        ELSE << Min(xs), Min(ys), Max(xs) + 1, Max(ys) + 1 >>
getbbox(im) ==
    LET data == { i \in 1..Len(im.px) : HasData(im.px[i]) }
        xs == { XOf(i, im.w) : i \in data }
        ys == { YOf(i, im.w) : i \in data }
    IN  IF data = {} THEN None
        ELSE << Min(xs), Min(ys), Max(xs) + 1, Max(ys) + 1 >>

\* Variant: the right edge is taken inclusive; columns past the image are
\* filled with zeros.
crop_InclusiveRight(im, box) ==
    LET cw == box[3] - box[1] + 1
        ch == box[4] - box[2]
    IN  [w |-> cw, h |-> ch,
         px |-> [j \in 1..(cw * ch) |->
                   IF box[1] + ((j - 1) % cw) < im.w
                   THEN im.px[(box[2] + ((j - 1) \div cw)) * im.w + box[1] + ((j - 1) % cw) + 1]
                   ELSE <<0, 0, 0, 0>>]]
\* Variant: the last column of a box wider than one pixel is dropped.
crop_DropColumn(im, box) ==
    LET cw == IF box[3] - box[1] > 1 THEN box[3] - box[1] - 1 ELSE box[3] - box[1]
        ch == box[4] - box[2]
    IN  [w |-> cw, h |-> ch,
         px |-> [j \in 1..(cw * ch) |->
                   im.px[(box[2] + ((j - 1) \div cw)) * im.w + box[1] + ((j - 1) % cw) + 1]]]
\* Image.crop(box): the half-open rectangle (left, top, right, bottom).
crop(im, box) ==
    LET cw == box[3] - box[1]
        ch == box[4] - box[2]
    IN  [w |-> cw, h |-> ch,
         px |-> [j \in 1..(cw * ch) |->
                   im.px[(box[2] + ((j - 1) \div cw)) * im.w + box[1] + ((j - 1) % cw) + 1]]]

\* ------------------------------------------------------------ initial state
Buffers(palette) ==
    UNION { { [w |-> s[1], h |-> s[2], px |-> p] : p \in [1..(s[1] * s[2]) -> palette] } :
            s \in Sizes }

InputFiles ==
    { NoFile, Garbage }
    \cup { Encode("RGBA", b) : b \in Buffers(Palette) }
    \cup { Encode("RGB", b) : b \in Buffers(PaletteRGB) }

Init ==
    /\ argv \in { << >>, << "in" >>, << "in", "out" >> }
    /\ \E f \in InputFiles, o \in { NoFile, Garbage } :
         /\ Len(argv) < 2 => ~Decodable(f)
         /\ fs = [p \in Paths |-> IF p = "in" THEN f ELSE o]
         /\ outBefore = o
    /\ writable \in BOOLEAN
    /\ pc = "Start"
    /\ img = NoImage
    /\ datas = NoImage
    /\ new_data = << >>
    /\ bbox = None
    /\ events = << >>
    /\ exitStatus = Running
    /\ err = "none"
    /\ run = 1

\* ----------------------------------------------------------------- actions
Fail(e) ==
    /\ err' = e
    /\ exitStatus' = 1
    /\ pc' = "Failed"

\* process_logo.py:4-5: image_path = sys.argv[1]; output_path = sys.argv[2]
ReadArgs ==
    /\ pc = "Start"
    /\ IF Len(argv) < 2
       THEN Fail("IndexError")
       ELSE /\ pc' = "Load"
            /\ UNCHANGED << err, exitStatus >>
    /\ UNCHANGED << argv, fs, writable, img, datas, new_data, bbox, events,
                    outBefore, run >>

image_path == argv[1]
output_path == argv[2]

\* process_logo.py:7-9: print, Image.open, convert("RGBA")
Loader ==
    /\ pc = "Load"
    /\ events' = events \o << "print:Opening", "stage:Loader" >>
    /\ IF Decodable(fs[image_path])
       THEN /\ img' = ConvertRGBA(fs[image_path].mode, Decode(fs[image_path]))
            /\ pc' = "Threshold"
            /\ UNCHANGED << err, exitStatus >>
       ELSE /\ Fail("DecodeError")
            /\ UNCHANGED img
    /\ UNCHANGED << argv, fs, writable, datas, new_data, bbox, outBefore, run >>

\* process_logo.py:11-24: getdata, the threshold loop, putdata
Thresholder ==
    /\ pc = "Threshold"
    /\ events' = Append(events, "stage:Thresholder")
    /\ datas' = img
    /\ new_data' = ThresholdAll(img.px)
    /\ img' = [img EXCEPT !.px = ThresholdAll(img.px)]
    /\ pc' = "Crop"
    /\ UNCHANGED << argv, fs, writable, bbox, exitStatus, err, outBefore, run >>

\* Variant: after a crop that changed the image the script thresholds again.
Cropper_Again ==
    /\ pc = "Crop"
    /\ events' = Append(events, "stage:Cropper")
    /\ bbox' = getbbox(img)
    /\ img' = IF getbbox(img) # None THEN crop(img, getbbox(img)) ELSE img
    /\ pc' = IF img' # img THEN "Threshold" ELSE "Write"
    /\ UNCHANGED << argv, fs, writable, datas, new_data, exitStatus, err,
                    outBefore, run >>
\* process_logo.py:26-28: bbox = img.getbbox(); if bbox: img = img.crop(bbox)
Cropper ==
    /\ pc = "Crop"
    /\ events' = Append(events, "stage:Cropper")
    /\ bbox' = getbbox(img)
    /\ img' = IF getbbox(img) # None THEN crop(img, getbbox(img)) ELSE img
    /\ pc' = "Write"
    /\ UNCHANGED << argv, fs, writable, datas, new_data, exitStatus, err,
                    outBefore, run >>

\* Variant: the file is written before the failure is raised.
Writer_WriteThenFail ==
    /\ pc = "Write"
    /\ fs' = [fs EXCEPT ![argv[2]] = Encode("RGBA", img)]
    /\ IF writable
       THEN /\ events' = events \o << "print:Saving", "stage:Writer", "write", "print:Done" >>
            /\ exitStatus' = 0
            /\ pc' = "Done"
            /\ UNCHANGED err
       ELSE /\ events' = events \o << "print:Saving", "stage:Writer" >>
            /\ Fail("EncodeError")
    /\ UNCHANGED << argv, writable, img, datas, new_data, bbox, outBefore, run >>
\* process_logo.py:30-32: print, img.save(output_path, "PNG"), print
Writer ==
    /\ pc = "Write"
    /\ IF writable
       THEN /\ fs' = [fs EXCEPT ![output_path] = Encode("RGBA", img)]
            /\ events' = events \o << "print:Saving", "stage:Writer", "write", "print:Done" >>
            /\ exitStatus' = 0
            /\ pc' = "Done"
            /\ UNCHANGED err
       ELSE /\ events' = events \o << "print:Saving", "stage:Writer" >>
            /\ Fail("EncodeError")
            /\ UNCHANGED fs
    /\ UNCHANGED << argv, writable, img, datas, new_data, bbox, outBefore, run >>

\* The script is run again on the file it has just written, in place.
Rerun ==
    /\ pc = "Done"
    /\ run < MaxRuns
    /\ run' = run + 1
    /\ argv' = << output_path, output_path >>
    /\ outBefore' = fs[output_path]
    /\ pc' = "Start"
    /\ img' = NoImage
    /\ datas' = NoImage
    /\ new_data' = << >>
    /\ bbox' = None
    /\ events' = << >>
    /\ exitStatus' = Running
    /\ err' = "none"
    /\ UNCHANGED << fs, writable >>

Next ==
    \/ ReadArgs
    \/ Loader
    \/ Thresholder
    \/ Cropper
    \/ Writer
    \/ Rerun

Spec == Init /\ [][Next]_vars

\* ------------------------------------------------------ notions of the claims
Ran(e) == \E i \in 1..Len(events) : events[i] = e

Transparent == <<0, 0, 0, 0>>

PixelAt(buf, x, y) == buf.px[y * buf.w + x + 1]

\* The buffer right after the threshold step, before cropping.
Thresholded == [w |-> datas.w, h |-> datas.h, px |-> new_data]

BelowAll(item) == item[1] < 15 /\ item[2] < 15 /\ item[3] < 15

AnyChannelIdx(buf) == { i \in 1..Len(buf.px) : buf.px[i] # Transparent }
AlphaIdx(buf) == { i \in 1..Len(buf.px) : buf.px[i][4] # 0 }

\* box is a half-open rectangle inside buf, no pixel outside it is content,
\* and each of its four edges holds a content pixel.
IsMinimalBox(buf, box, content) ==
    /\ Len(box) = 4
    /\ 0 <= box[1] /\ box[1] < box[3] /\ box[3] <= buf.w
    /\ 0 <= box[2] /\ box[2] < box[4] /\ box[4] <= buf.h
    /\ \A x \in 0..(buf.w - 1), y \in 0..(buf.h - 1) :
         (x < box[1] \/ x >= box[3] \/ y < box[2] \/ y >= box[4])
            => (y * buf.w + x + 1) \notin content
    /\ \E y \in box[2]..(box[4] - 1) : (y * buf.w + box[1] + 1) \in content
    /\ \E y \in box[2]..(box[4] - 1) : (y * buf.w + (box[3] - 1) + 1) \in content
    /\ \E x \in box[1]..(box[3] - 1) : (box[2] * buf.w + x + 1) \in content
    /\ \E x \in box[1]..(box[3] - 1) : ((box[4] - 1) * buf.w + x + 1) \in content

\* out is exactly the rectangle box of buf.
IsSubRect(out, buf, box) ==
    /\ out.w = box[3] - box[1]
    /\ out.h = box[4] - box[2]
    /\ Len(out.px) = out.w * out.h
    /\ \A x \in 0..(out.w - 1), y \in 0..(out.h - 1) :
         PixelAt(out, x, y) = PixelAt(buf, x + box[1], y + box[2])

IsPrefix(s, t) == Len(s) <= Len(t) /\ \A i \in 1..Len(s) : s[i] = t[i]

Canon == << "print:Opening", "stage:Loader", "stage:Thresholder", "stage:Cropper",
            "print:Saving", "stage:Writer", "write", "print:Done" >>

\* The image stored at the output path.
Written == Decode(fs[argv[2]])

\* ---------------------------------------------------------------- claims

\* C1: once the threshold step has run, every position whose input pixel has
\* R < 15, G < 15 and B < 15 holds exactly (0,0,0,0) in the thresholded
\* buffer (before cropping), whatever the input alpha was.
C1_DarkPixelsCleared ==
    Ran("stage:Thresholder") =>
        /\ Len(new_data) = Len(datas.px)
        /\ \A i \in 1..Len(datas.px) :
             BelowAll(datas.px[i]) =>
                /\ new_data[i] = Transparent
                /\ pc = "Crop" => img.px[i] = Transparent

C1_Witness ==
    /\ pc = "Crop"
    /\ \E i, j \in 1..Len(datas.px) :
         /\ BelowAll(datas.px[i]) /\ datas.px[i][4] = 255
         /\ BelowAll(datas.px[j]) /\ datas.px[j][4] = 0

\* C2: once the threshold step has run, every position whose input pixel has
\* some of R, G, B >= 15 (15 included) holds the input pixel in all four
\* channels; every pixel is (0,0,0,0) or its input value; width, height and
\* pixel order are those of the input.
C2_BrightPixelsKept ==
    Ran("stage:Thresholder") =>
        /\ Len(new_data) = datas.w * datas.h
        /\ \A i \in 1..Len(datas.px) :
             /\ ~BelowAll(datas.px[i]) => new_data[i] = datas.px[i]
             /\ new_data[i] = Transparent \/ new_data[i] = datas.px[i]
        /\ pc = "Crop" => img = Thresholded

C2_Witness ==
    /\ pc = "Crop"
    /\ \E i, j \in 1..Len(datas.px) :
         /\ datas.px[i][1] = 15 /\ datas.px[i][2] < 15 /\ datas.px[i][3] < 15
         /\ new_data[i] = datas.px[i]
         /\ BelowAll(datas.px[j]) /\ datas.px[j] # Transparent

\* C3 as stated: whenever the thresholded buffer has a pixel that is not
\* (0,0,0,0), the box is the minimal rectangle around the pixels with any
\* non-zero channel, and the cropped image is that rectangle.
C3_AnyChannelBox ==
    (Ran("stage:Cropper") /\ AnyChannelIdx(Thresholded) # {}) =>
        /\ IsMinimalBox(Thresholded, bbox, AnyChannelIdx(Thresholded))
        /\ IsSubRect(img, Thresholded, bbox)

\* C3 as amended: whenever the thresholded buffer has a pixel with non-zero
\* alpha, the box is the minimal rectangle such that every pixel outside it
\* has alpha 0 and each of its four edges holds a pixel with non-zero alpha
\* (a pixel with non-zero RGB and alpha 0 is not content), and the cropped
\* image is exactly that rectangle of the thresholded buffer.
C3_AlphaBox ==
    (Ran("stage:Cropper") /\ AlphaIdx(Thresholded) # {}) =>
        /\ IsMinimalBox(Thresholded, bbox, AlphaIdx(Thresholded))
        /\ IsSubRect(img, Thresholded, bbox)

C3_Witness ==
    /\ pc = "Write"
    /\ bbox # None
    /\ img.w < datas.w
    /\ img.h < datas.h
    /\ \E i \in 1..Len(new_data) : new_data[i] # Transparent /\ new_data[i][4] = 0

\* C4: when every input pixel has R, G and B below 15, no bounding box
\* exists, the crop is skipped, the Cropper raises nothing, and the written
\* image has the input's width and height with every pixel (0,0,0,0); the
\* run ends with status 0 whenever the output can be written.
C4_AllBlack ==
    (Ran("stage:Cropper") /\ \A i \in 1..Len(datas.px) : BelowAll(datas.px[i])) =>
        /\ bbox = None
        /\ img.w = datas.w /\ img.h = datas.h
        /\ \A i \in 1..Len(img.px) : img.px[i] = Transparent
        /\ pc = "Write" => err = "none"
        /\ pc = "Failed" => ~writable
        /\ pc = "Done" =>
             /\ exitStatus = 0
             /\ Written.w = datas.w /\ Written.h = datas.h
             /\ Len(Written.px) = datas.w * datas.h
             /\ \A i \in 1..Len(Written.px) : Written.px[i] = Transparent

C4_Witness ==
    /\ pc = "Done"
    /\ run = 1
    /\ datas.w > 1 /\ datas.h > 1
    /\ \A i \in 1..Len(datas.px) : BelowAll(datas.px[i])
    /\ \E i \in 1..Len(datas.px) : datas.px[i][4] = 255

NoBlack(buf) ==
    \A i \in 1..Len(buf.px) : buf.px[i][1] >= 15 \/ buf.px[i][2] >= 15 \/ buf.px[i][3] >= 15

\* Each of the first and last row and column of buf holds a pixel with
\* non-zero alpha.
AlphaOnEveryBorder(buf) ==
    /\ \E y \in 0..(buf.h - 1) : PixelAt(buf, 0, y)[4] # 0
    /\ \E y \in 0..(buf.h - 1) : PixelAt(buf, buf.w - 1, y)[4] # 0
    /\ \E x \in 0..(buf.w - 1) : PixelAt(buf, x, 0)[4] # 0
    /\ \E x \in 0..(buf.w - 1) : PixelAt(buf, x, buf.h - 1)[4] # 0

\* C5 as stated: when every pixel of the normalized input has some of R, G,
\* B >= 15, the written image is the normalized input, uncropped.
C5_NoBlackIdentity ==
    (pc = "Done" /\ NoBlack(datas)) => Written = datas

\* C5 as amended: when every pixel of the normalized input has some of R, G,
\* B >= 15, the threshold step changes no pixel and the written image is
\* the normalized input cropped to the minimal rectangle around its pixels
\* with non-zero alpha (uncropped when there is none); it is identical to
\* the normalized input exactly when no pixel has non-zero alpha or each of
\* the first and last row and column holds a pixel with non-zero alpha.
C5_NoBlackAlphaCrop ==
    (pc = "Done" /\ NoBlack(datas)) =>
        /\ new_data = datas.px
        /\ IF AlphaIdx(datas) = {}
           THEN Written = datas
           ELSE /\ IsMinimalBox(datas, bbox, AlphaIdx(datas))
                /\ IsSubRect(Written, datas, bbox)
        /\ (Written = datas) <=> (AlphaIdx(datas) = {} \/ AlphaOnEveryBorder(datas))

C5_Witness ==
    /\ pc = "Done"
    /\ run = 1
    /\ NoBlack(datas)
    /\ AlphaIdx(datas) # {}
    /\ ~AlphaOnEveryBorder(datas)
    /\ Written.w < datas.w

\* C6: a run on the output of the previous run writes the same file again:
\* it changes no pixel in the threshold step, crops nothing, and the file
\* at the output path is what it was when the run started.
C6_Idempotent ==
    (run >= 2 /\ pc = "Done") =>
        /\ new_data = datas.px
        /\ img = datas
        /\ fs[argv[2]] = outBefore

C6_Witness ==
    /\ run = 2
    /\ pc = "Done"
    /\ Written.w < fs["in"].w
    /\ \E i \in 1..Len(Written.px) : Written.px[i] = Transparent
    /\ \E i \in 1..Len(Written.px) : Written.px[i][4] = 255

\* C7: a run whose input path is missing or not a decodable image ends in
\* the Loader with DecodeError and status 1: only "Opening" was printed, no
\* later stage was entered, and the file at the output path is what it was
\* before the run.
C7_DecodeFailure ==
    /\ (Len(argv) = 2 /\ pc \notin {"Start", "Load"} /\ fs[argv[1]].kind # "image") =>
          err = "DecodeError"
    /\ err = "DecodeError" =>
          /\ fs[argv[1]].kind # "image"
          /\ pc = "Failed"
          /\ exitStatus = 1
          /\ events = << "print:Opening", "stage:Loader" >>
          /\ fs[argv[2]] = outBefore
          /\ img = NoImage /\ new_data = << >> /\ bbox = None

C7_Witness ==
    /\ err = "DecodeError"
    /\ fs[argv[1]] = Garbage
    /\ fs[argv[2]] = NoFile

\* C8: a run whose input was loaded and whose output path cannot be opened
\* for writing ends with EncodeError and status 1, after the Thresholder
\* and the Cropper have run and "Saving" was printed; nothing is written,
\* the file at the output path is what it was before the run, there is no
\* second attempt and "Done" is not printed.
C8_EncodeFailure ==
    /\ (pc \in {"Done", "Failed"} /\ Ran("stage:Thresholder") /\ ~writable) =>
          err = "EncodeError"
    /\ err = "EncodeError" =>
          /\ ~writable
          /\ pc = "Failed"
          /\ exitStatus = 1
          /\ events = << "print:Opening", "stage:Loader", "stage:Thresholder",
                         "stage:Cropper", "print:Saving", "stage:Writer" >>
          /\ fs[argv[2]] = outBefore

C8_Witness ==
    /\ err = "EncodeError"
    /\ outBefore = Garbage
    /\ bbox # None
    /\ img.w < datas.w

\* C9: in a successful run the written image is no wider and no higher than
\* the loaded one, and has exactly its width and height precisely when the
\* crop was skipped or the box is the whole image.
C9_NeverGrows ==
    pc = "Done" =>
        /\ Written.w <= datas.w
        /\ Written.h <= datas.h
        /\ (Written.w = datas.w /\ Written.h = datas.h)
              <=> (bbox = None \/ bbox = << 0, 0, datas.w, datas.h >>)

C9_Witness ==
    /\ pc = "Done"
    /\ run = 1
    /\ bbox # None
    /\ Written.w < datas.w
    /\ Written.h = datas.h

\* C10: the events of a run are an initial part of Opening, Loader,
\* Thresholder, Cropper, Saving, Writer, write, Done: each stage is entered
\* at most once and in that order, the file is written at most once and
\* only after the first three stages, the output file differs from its
\* state before the run only after a write, and status 0 is reached only
\* with the whole sequence done.
C10_StageOrder ==
    /\ IsPrefix(events, Canon)
    /\ exitStatus = 0 <=> pc = "Done"
    /\ exitStatus = 1 <=> pc = "Failed"
    /\ pc = "Done" => events = Canon
    /\ pc = "Failed" => ~Ran("write") /\ ~Ran("print:Done")
    /\ (Len(argv) = 2 /\ fs[argv[2]] # outBefore) => Ran("write")

C10_Witness ==
    /\ pc = "Done"
    /\ run = 1
    /\ events = Canon
    /\ exitStatus = 0
    /\ img.w < datas.w

====
